---- MODULE Spec2Model ----
(***************************************************************************)
(* Model of pymnet/models.py: the configuration-model generator            *)
(* single_layer_conf (stub list, initial pairing, self-loop phase,         *)
(* multi-edge phase) and its orchestrator conf.                            *)
(*                                                                         *)
(* Conventions.                                                            *)
(*  - Positions in the stub list are 0-based as in the source; the TLA+    *)
(*    sequence holds position i at index i+1 (see At).                     *)
(*  - A dict keyed by small integers (degs, selfedges) is iterated in      *)
(*    ascending key order, as CPython 2 does for such keys; the set of     *)
(*    tuples multiedges is iterated in an arbitrary order.                 *)
(*  - random.sample is a nondeterministic choice at each draw; the outcome *)
(*    of random.shuffle is any arrangement of the list, drawn when the     *)
(*    call starts (variable shuffle) and applied at line 42.               *)
(*  - A rejected sample changes nothing: the retry actions stutter.        *)
(***************************************************************************)
EXTENDS Integers, Sequences, FiniteSets

\* ------------------------------------------------------------------ bounds
MaxDeg == 4
MaxNodes == 6
MaxStubs == 8
MaxLayers == 2

\* bounds of the per-layer degree sequences handed to conf with aspects=1
LayerMaxNodes == MaxNodes \div 2
LayerMaxStubs == MaxStubs \div 2

VARIABLES
    pc,          \* position in single_layer_conf
    err,         \* the exception single_layer_conf raised, "none" if none
    degs,        \* argument degs: degree -> number of nodes
    shuffle,     \* the arrangement random.shuffle leaves in this call
    stubs,       \* local stubs
    sidx,        \* loop variable s of the classification loop
    selfedges,   \* local selfedges: node -> positions
    multiedges,  \* local multiedges: set of sorted pairs
    edgetoindex, \* local edgetoindex: sorted pair -> positions
    net,         \* argument net: the target graph, sorted pair -> weight
    selfwork,    \* self-loop occurrences <<node, si>> still to be rewired
    multitodo,   \* pairs of multiedges the outer loop has not reached yet
    cur,         \* <<n1, n2>> of the running outer iteration, <<>> if none
    rounds,      \* inner iterations (dummy) left for cur
    rewires,     \* history: accepted rewires so far
    cpc,         \* position in conf ("direct": single_layer_conf called directly)
    cerr,        \* the exception conf raised, "none" if none
    aspects,     \* argument aspects of conf
    ldegs,       \* argument degs of conf when aspects=1: sequence of dicts
    l,           \* layer index of conf's second loop
    nlayers,     \* layers added to the MultiplexNetwork so far
    invoked,     \* calls of single_layer_conf made by conf so far
    A            \* nets of the layers whose generation returned

slvars == <<pc, err, degs, shuffle, stubs, sidx, selfedges, multiedges, edgetoindex, net,
            selfwork, multitodo, cur, rounds, rewires>>
cvars == <<cpc, cerr, aspects, ldegs, l, nlayers, invoked, A>>
vars == <<pc, err, degs, shuffle, stubs, sidx, selfedges, multiedges, edgetoindex, net,
          selfwork, multitodo, cur, rounds, rewires,
          cpc, cerr, aspects, ldegs, l, nlayers, invoked, A>>

\* ----------------------------------------------------------- small helpers
Range(s) == {s[i] : i \in DOMAIN s}

RECURSIVE SumSeq(_)
SumSeq(s) == IF s = <<>> THEN 0 ELSE s[1] + SumSeq(Tail(s))

RECURSIVE Repeat(_, _)
Repeat(v, n) == IF n = 0 THEN <<>> ELSE <<v>> \o Repeat(v, n - 1)

\* sorted([a,b])
Sorted2(a, b) == IF a <= b THEN <<a, b>> ELSE <<b, a>>

\* stubs[i], i a 0-based position
At(s, i) == s[i + 1]

\* stubs[i],stubs[i+1]=sorted([a,b])
SetSlot(s, i, a, b) ==
    [s EXCEPT ![i + 1] = Sorted2(a, b)[1], ![i + 2] = Sorted2(a, b)[2]]

\* len(set(c))==len(c)
Distinct(c) == Cardinality(Range(c)) = Len(c)

\* {}: an empty dict
EmptyDict == [k \in {} |-> <<>>]

\* ------------------------------------------------- the target graph object
\* MultilayerNetwork(aspects=0): a network without edges
EmptyNet == [k \in {} |-> 0]

\* net[a,b] of an undirected network: the weight, 0 (noEdge) when absent
NetGet(g, a, b) ==
    IF Sorted2(a, b) \in DOMAIN g THEN g[Sorted2(a, b)] ELSE 0

\* net[a,b]=w: writing 0 removes the edge
NetSet(g, a, b, w) ==
    IF w = 0
    THEN [k \in DOMAIN g \ {Sorted2(a, b)} |-> g[k]]
    ELSE [k \in DOMAIN g \cup {Sorted2(a, b)} |->
            IF k = Sorted2(a, b) THEN w ELSE g[k]]

\* net[v].deg(): number of edges at v
Deg(g, v) == Cardinality({k \in DOMAIN g : k[1] = v \/ k[2] = v})

\* nodes of the graph: a node enters the graph with its first edge
NetNodes(g) == {k[1] : k \in DOMAIN g} \cup {k[2] : k \in DOMAIN g}

\* ------------------------------------------------------ degree sequences
Degrees == 0 .. MaxDeg

\* sum(degs.values())
NumNodes(d) == SumSeq([k \in 1 .. MaxDeg + 1 |-> d[k - 1]])

\* sum(map(lambda x:x[0]*x[1],degs.items()))
DegSum(d) == SumSeq([k \in 1 .. MaxDeg + 1 |-> (k - 1) * d[k - 1]])

\* the handshake check made on the number of nodes instead of the degree sum
ParityOfNodeCount(d) == NumNodes(d) % 2 = 0

\* line 29: the handshake check
ParityOk(d) == DegSum(d) % 2 = 0

DegSeqsWithin(maxNodes, maxStubs) ==
    {d \in [Degrees -> 0 .. maxNodes] :
        NumNodes(d) <= maxNodes /\ DegSum(d) <= maxStubs}

DegSeqs == DegSeqsWithin(MaxNodes, MaxStubs)

LayerDegSeqs == DegSeqsWithin(LayerMaxNodes, LayerMaxStubs)

\* the degree prescribed for node v: nodes are numbered while unrolling
RECURSIVE DegOfFrom(_, _, _)
DegOfFrom(d, v, k) ==
    IF k > MaxDeg THEN 0
    ELSE IF v < d[k] THEN k
    ELSE DegOfFrom(d, v - d[k], k + 1)

DegOf(d, v) == DegOfFrom(d, v, 0)

\* lines 36-41: the unshuffled stub list
RECURSIVE UnrollFrom(_, _, _)
UnrollFrom(d, k, node) ==
    IF k > MaxDeg THEN <<>>
    ELSE LET RECURSIVE OfDegree(_)
             OfDegree(i) ==
                 IF i = d[k] THEN <<>>
                 ELSE Repeat(node + i, k) \o OfDegree(i + 1)
         IN OfDegree(0) \o UnrollFrom(d, k + 1, node + d[k])

Unroll(d) == UnrollFrom(d, 0, 0)

\* line 42: random.shuffle(stubs) may leave any arrangement of the list
RECURSIVE RemoveOne(_, _)
RemoveOne(s, v) ==
    IF s[1] = v THEN Tail(s) ELSE <<s[1]>> \o RemoveOne(Tail(s), v)

RECURSIVE Shuffles(_)
Shuffles(s) ==
    IF s = <<>> THEN {<<>>}
    ELSE UNION {{<<v>> \o t : t \in Shuffles(RemoveOne(s, v))} : v \in Range(s)}

\* len(stubs)/2
NSlots(s) == Len(s) \div 2

\* random.sample(xrange(len(stubs)/2),2), mapped to positions
Samples(s) ==
    {<<2 * x, 2 * y>> : x, y \in 0 .. NSlots(s) - 1} \
        {<<2 * x, 2 * x>> : x \in 0 .. NSlots(s) - 1}

\* --------------------------------------------------- initial classification
DictGet(f, k) == IF k \in DOMAIN f THEN f[k] ELSE <<>>

DictPut(f, k, v) == [x \in DOMAIN f \cup {k} |-> IF x = k THEN v ELSE f[x]]

\* the classification step without the test node1==node2 of line 52: a
\* self-pairing is written into the target graph like any other pair
ClassifyPairSelfWritten(st, s, sl) ==
    LET node1 == Sorted2(At(s, 2 * sl), At(s, 2 * sl + 1))[1]
        node2 == Sorted2(At(s, 2 * sl), At(s, 2 * sl + 1))[2]
        key == <<node1, node2>>
    IN [edgetoindex |-> DictPut(st.edgetoindex, key,
                                Append(DictGet(st.edgetoindex, key), 2 * sl)),
        multiedges |-> IF NetGet(st.net, node1, node2) # 0
                       THEN st.multiedges \cup {key}
                       ELSE st.multiedges,
        selfedges |-> IF node1 = node2
                      THEN DictPut(st.selfedges, node1,
                                   Append(DictGet(st.selfedges, node1), 2 * sl))
                      ELSE st.selfedges,
        net |-> NetSet(st.net, node1, node2, 1)]

\* the classification step with the test of line 49 made after the write of
\* line 55: every pair of different nodes lands in multiedges
ClassifyPairTestAfterWrite(st, s, sl) ==
    LET node1 == Sorted2(At(s, 2 * sl), At(s, 2 * sl + 1))[1]
        node2 == Sorted2(At(s, 2 * sl), At(s, 2 * sl + 1))[2]
        key == <<node1, node2>>
    IN [edgetoindex |-> DictPut(st.edgetoindex, key,
                                Append(DictGet(st.edgetoindex, key), 2 * sl)),
        multiedges |-> IF node1 # node2
                       THEN st.multiedges \cup {key}
                       ELSE st.multiedges,
        selfedges |-> IF node1 = node2
                      THEN DictPut(st.selfedges, node1,
                                   Append(DictGet(st.selfedges, node1), 2 * sl))
                      ELSE st.selfedges,
        net |-> IF node1 = node2 THEN st.net
                ELSE NetSet(st.net, node1, node2, 1)]

\* the classification step with the test of line 49 made on the registry
\* entry instead of the target graph: a repeated self-pairing counts too
ClassifyPairByRegistry(st, s, sl) ==
    LET node1 == Sorted2(At(s, 2 * sl), At(s, 2 * sl + 1))[1]
        node2 == Sorted2(At(s, 2 * sl), At(s, 2 * sl + 1))[2]
        key == <<node1, node2>>
    IN [edgetoindex |-> DictPut(st.edgetoindex, key,
                                Append(DictGet(st.edgetoindex, key), 2 * sl)),
        multiedges |-> IF Len(DictGet(st.edgetoindex, key)) >= 1
                       THEN st.multiedges \cup {key}
                       ELSE st.multiedges,
        selfedges |-> IF node1 = node2
                      THEN DictPut(st.selfedges, node1,
                                   Append(DictGet(st.selfedges, node1), 2 * sl))
                      ELSE st.selfedges,
        net |-> IF node1 = node2 THEN st.net
                ELSE NetSet(st.net, node1, node2, 1)]

\* the classification step with line 55 adding to the weight already there
\* instead of writing 1
ClassifyPairIncrement(st, s, sl) ==
    LET node1 == Sorted2(At(s, 2 * sl), At(s, 2 * sl + 1))[1]
        node2 == Sorted2(At(s, 2 * sl), At(s, 2 * sl + 1))[2]
        key == <<node1, node2>>
    IN [edgetoindex |-> DictPut(st.edgetoindex, key,
                                Append(DictGet(st.edgetoindex, key), 2 * sl)),
        multiedges |-> IF NetGet(st.net, node1, node2) # 0
                       THEN st.multiedges \cup {key}
                       ELSE st.multiedges,
        selfedges |-> IF node1 = node2
                      THEN DictPut(st.selfedges, node1,
                                   Append(DictGet(st.selfedges, node1), 2 * sl))
                      ELSE st.selfedges,
        net |-> IF node1 = node2 THEN st.net
                ELSE NetSet(st.net, node1, node2,
                            NetGet(st.net, node1, node2) + 1)]

\* lines 45-55: one iteration of the classification loop
ClassifyPair(st, s, sl) ==
    LET node1 == Sorted2(At(s, 2 * sl), At(s, 2 * sl + 1))[1]
        node2 == Sorted2(At(s, 2 * sl), At(s, 2 * sl + 1))[2]
        key == <<node1, node2>>
    IN [edgetoindex |-> DictPut(st.edgetoindex, key,
                                Append(DictGet(st.edgetoindex, key), 2 * sl)),
        multiedges |-> IF NetGet(st.net, node1, node2) # 0
                       THEN st.multiedges \cup {key}
                       ELSE st.multiedges,
        selfedges |-> IF node1 = node2
                      THEN DictPut(st.selfedges, node1,
                                   Append(DictGet(st.selfedges, node1), 2 * sl))
                      ELSE st.selfedges,
        net |-> IF node1 = node2 THEN st.net
                ELSE NetSet(st.net, node1, node2, 1)]

\* lines 57-58: the occurrences in iteration order, nodes ascending
RECURSIVE SelfWorkFrom(_, _)
SelfWorkFrom(se, node) ==
    IF \A n \in DOMAIN se : n < node THEN <<>>
    ELSE (IF node \in DOMAIN se
          THEN [i \in 1 .. Len(se[node]) |-> <<node, se[node][i]>>]
          ELSE <<>>) \o SelfWorkFrom(se, node + 1)

SelfWork(se) == SelfWorkFrom(se, 0)

\* ------------------------------------------------------- self-loop phase
\* lines 63-65: c and the sorted sampled pairs
SelfC(s, node, e1i, e2i) ==
    <<node, At(s, e1i), At(s, e1i + 1), At(s, e2i), At(s, e2i + 1)>>

\* lines 66-68: the acceptance test
SelfAccepts(g, me, s, node, e1i, e2i) ==
    LET c == SelfC(s, node, e1i, e2i)
        p23 == Sorted2(c[2], c[3])
        p45 == Sorted2(c[4], c[5])
    IN /\ Distinct(c)
       /\ p23 \notin me /\ p45 \notin me
       /\ NetGet(g, node, p23[1]) = 0
       /\ NetGet(g, node, p45[1]) = 0
       /\ NetGet(g, p23[2], p45[2]) = 0

\* the writes of lines 69-72 without line 73: the edge between the two far
\* endpoints is forgotten
SelfRewireNetNoFar(g, node, n2, n3, n4, n5) ==
    NetSet(NetSet(NetSet(NetSet(g, n2, n3, 0), n4, n5, 0),
                  node, n2, 1), node, n4, 1)

\* lines 69-73: the five writes to the target graph
SelfRewireNet(g, node, n2, n3, n4, n5) ==
    NetSet(NetSet(NetSet(NetSet(NetSet(g, n2, n3, 0), n4, n5, 0),
                         node, n2, 1), node, n4, 1), n3, n5, 1)

\* the slot writes of lines 74-76 without line 75: the first sampled slot
\* keeps the pair whose edge was removed
SelfRewireStubsKeepFirst(s, si, e1i, e2i, node, n2, n3, n4, n5) ==
    SetSlot(SetSlot(s, si, n3, n5), e2i, node, n4)

\* lines 74-76: the three slot writes
SelfRewireStubs(s, si, e1i, e2i, node, n2, n3, n4, n5) ==
    SetSlot(SetSlot(SetSlot(s, si, n3, n5), e1i, node, n2), e2i, node, n4)

\* ------------------------------------------------------- multi-edge phase
\* lines 93-95
MultiC(s, n1, n2, e1i, e2i) ==
    <<n1, n2, At(s, e1i), At(s, e1i + 1), At(s, e2i), At(s, e2i + 1)>>

\* lines 96-98: the acceptance test
MultiAccepts(g, me, s, n1, n2, e1i, e2i) ==
    LET c == MultiC(s, n1, n2, e1i, e2i)
        p34 == Sorted2(c[3], c[4])
        p56 == Sorted2(c[5], c[6])
    IN /\ Distinct(c)
       /\ p34 \notin me /\ p56 \notin me
       /\ NetGet(g, n1, p34[1]) = 0
       /\ NetGet(g, n2, p34[2]) = 0
       /\ NetGet(g, n1, p56[1]) = 0
       /\ NetGet(g, n2, p56[2]) = 0

\* lines 99-100 left out: the base edge is never removed
MultiKeepBase(g, reg, n1, n2) == g

\* lines 99-100 without the test of line 99: every rewire removes the base
\* edge
MultiDropAlways(g, reg, n1, n2) == NetSet(g, n1, n2, 0)

\* lines 99-100: the base edge goes when two registry entries are left
MultiDropBase(g, reg, n1, n2) ==
    IF Len(reg) = 2 THEN NetSet(g, n1, n2, 0) ELSE g

\* lines 101-102: the two assertions
MultiAsserts(g, n3, n4, n5, n6) ==
    NetGet(g, n3, n4) = 1 /\ NetGet(g, n5, n6) = 1

\* lines 103-108: the six writes to the target graph
MultiRewireNet(g, n1, n2, n3, n4, n5, n6) ==
    NetSet(NetSet(NetSet(NetSet(NetSet(NetSet(g, n3, n4, 0), n5, n6, 0),
                                n1, n3, 1), n2, n4, 1), n1, n5, 1), n2, n6, 1)

\* line 109: two pops from the end of the registry entry
PopTwo(reg) == SubSeq(reg, 1, Len(reg) - 2)

PoppedSorted(reg) == Sorted2(reg[Len(reg)], reg[Len(reg) - 1])

\* lines 110-113: the four slot writes; the first two both go to si1
MultiRewireStubs(s, si1, si2, e1i, e2i, n1, n2, n3, n4, n5, n6) ==
    SetSlot(SetSlot(SetSlot(SetSlot(s, si1, n1, n3), si1, n2, n4),
                    e1i, n1, n5), e2i, n2, n6)

\* ---------------------------------------------------------------- states
NoLocals ==
    /\ stubs = <<>>
    /\ sidx = 0
    /\ selfedges = EmptyDict
    /\ multiedges = {}
    /\ edgetoindex = EmptyDict
    /\ selfwork = <<>>
    /\ multitodo = {}
    /\ cur = <<>>
    /\ rounds = 0
    /\ rewires = 0

\* the arrangements random.shuffle can leave in a call on d; the shuffle is
\* not reached when the check of line 29 fails
ShufflesOf(d) == IF ParityOk(d) THEN Shuffles(Unroll(d)) ELSE {<<>>}

\* a call single_layer_conf(net,degs) with an empty net is about to run
CallState(d) ==
    /\ pc = "start"
    /\ err = "none"
    /\ degs = d
    /\ shuffle \in ShufflesOf(d)
    /\ net = EmptyNet
    /\ NoLocals

NoConf ==
    /\ cpc = "direct"
    /\ cerr = "none"
    /\ aspects = 0
    /\ ldegs = <<>>
    /\ l = 0
    /\ nlayers = 0
    /\ invoked = 0
    /\ A = <<>>

Init == (\E d \in DegSeqs : CallState(d)) /\ NoConf

\* ------------------------------------------------ single_layer_conf steps
\* line 29: the assertion fails
ParityFail ==
    /\ UNCHANGED cvars
    /\ pc = "start"
    /\ ~ParityOk(degs)
    /\ pc' = "raised"
    /\ err' = "AssertionError"
    /\ UNCHANGED <<degs, shuffle, stubs, sidx, selfedges, multiedges, edgetoindex, net,
                   selfwork, multitodo, cur, rounds, rewires>>

\* lines 30-42: the locals are set up, the stubs unrolled and shuffled; with
\* no pair to classify the loop of line 44 is over at once
BuildStubs ==
    /\ UNCHANGED cvars
    /\ pc = "start"
    /\ ParityOk(degs)
    /\ stubs' = shuffle
    /\ sidx' = 0
    /\ pc' = (IF NSlots(shuffle) = 0 THEN "selfloops" ELSE "classify")
    /\ UNCHANGED <<err, degs, shuffle, selfedges, multiedges, edgetoindex, net,
                   selfwork, multitodo, cur, rounds, rewires>>

\* lines 44-55: one iteration of the classification loop; after the last
\* one the loop of line 57 starts on the recorded self-loops
ClassifyStep ==
    /\ UNCHANGED cvars
    /\ pc = "classify"
    /\ sidx < NSlots(stubs)
    /\ LET st == ClassifyPair([edgetoindex |-> edgetoindex,
                               multiedges |-> multiedges,
                               selfedges |-> selfedges,
                               net |-> net], stubs, sidx)
       IN /\ selfedges' = st.selfedges
          /\ multiedges' = st.multiedges
          /\ edgetoindex' = st.edgetoindex
          /\ net' = st.net
          /\ IF sidx + 1 = NSlots(stubs)
             THEN pc' = "selfloops" /\ selfwork' = SelfWork(st.selfedges)
             ELSE pc' = "classify" /\ selfwork' = selfwork
    /\ sidx' = sidx + 1
    /\ UNCHANGED <<err, degs, shuffle, stubs, multitodo, cur, rounds, rewires>>

\* lines 62, 92: random.sample cannot draw two of fewer than two slots
SampleError ==
    /\ UNCHANGED cvars
    /\ \/ pc = "selfloops" /\ selfwork # <<>>
       \/ pc = "multiedges" /\ cur # <<>>
    /\ NSlots(stubs) < 2
    /\ pc' = "raised"
    /\ err' = "ValueError"
    /\ UNCHANGED <<degs, shuffle, stubs, sidx, selfedges, multiedges, edgetoindex, net,
                   selfwork, multitodo, cur, rounds, rewires>>

\* lines 59-77: a sample that passes the tests rewires the self-loop
SelfLoopRewire ==
    /\ UNCHANGED cvars
    /\ pc = "selfloops"
    /\ selfwork # <<>>
    /\ \E e \in Samples(stubs) :
          LET node == selfwork[1][1]
              si == selfwork[1][2]
              c == SelfC(stubs, node, e[1], e[2])
              p23 == Sorted2(c[2], c[3])
              p45 == Sorted2(c[4], c[5])
          IN /\ SelfAccepts(net, multiedges, stubs, node, e[1], e[2])
             /\ net' = SelfRewireNet(net, node, p23[1], p23[2], p45[1], p45[2])
             /\ stubs' = SelfRewireStubs(stubs, si, e[1], e[2], node,
                                         p23[1], p23[2], p45[1], p45[2])
    /\ selfwork' = Tail(selfwork)
    /\ rewires' = rewires + 1
    /\ UNCHANGED <<pc, err, degs, shuffle, sidx, selfedges, multiedges, edgetoindex,
                   multitodo, cur, rounds>>

\* lines 59-68: a sample that fails a test is dropped and the loop repeats
SelfLoopRetry ==
    /\ UNCHANGED cvars
    /\ pc = "selfloops"
    /\ selfwork # <<>>
    /\ {e \in Samples(stubs) :
          ~SelfAccepts(net, multiedges, stubs, selfwork[1][1], e[1], e[2])} # {}
    /\ UNCHANGED slvars

\* line 57 exhausted, line 87 begins
SelfLoopsDone ==
    /\ UNCHANGED cvars
    /\ pc = "selfloops"
    /\ selfwork = <<>>
    /\ pc' = "multiedges"
    /\ multitodo' = multiedges
    /\ UNCHANGED <<err, degs, shuffle, stubs, sidx, selfedges, multiedges, edgetoindex, net,
                   selfwork, cur, rounds, rewires>>

\* lines 87-88: the next pair of multiedges and its number of rounds
NextPair ==
    /\ UNCHANGED cvars
    /\ pc = "multiedges"
    /\ cur = <<>>
    /\ \E p \in multitodo :
          /\ cur' = (IF Len(edgetoindex[p]) \div 2 = 0 THEN <<>> ELSE p)
          /\ rounds' = Len(edgetoindex[p]) \div 2
          /\ multitodo' = multitodo \ {p}
    /\ UNCHANGED <<pc, err, degs, shuffle, stubs, sidx, selfedges, multiedges, edgetoindex,
                   net, selfwork, rewires>>

\* lines 89-114: a sample that passes the tests rewires one pair of duplicates
MultiRewire ==
    /\ UNCHANGED cvars
    /\ pc = "multiedges"
    /\ cur # <<>>
    /\ \E e \in Samples(stubs) :
          LET n1 == cur[1]
              n2 == cur[2]
              c == MultiC(stubs, n1, n2, e[1], e[2])
              p34 == Sorted2(c[3], c[4])
              p56 == Sorted2(c[5], c[6])
              reg == edgetoindex[cur]
              g1 == MultiDropBase(net, reg, n1, n2)
              si == PoppedSorted(reg)
          IN /\ MultiAccepts(net, multiedges, stubs, n1, n2, e[1], e[2])
             /\ IF MultiAsserts(g1, p34[1], p34[2], p56[1], p56[2])
                THEN /\ net' = MultiRewireNet(g1, n1, n2, p34[1], p34[2],
                                              p56[1], p56[2])
                     /\ edgetoindex' = [edgetoindex EXCEPT ![cur] = PopTwo(reg)]
                     /\ stubs' = MultiRewireStubs(stubs, si[1], si[2], e[1], e[2],
                                                  n1, n2, p34[1], p34[2],
                                                  p56[1], p56[2])
                     /\ rounds' = rounds - 1
                     /\ cur' = (IF rounds = 1 THEN <<>> ELSE cur)
                     /\ rewires' = rewires + 1
                     /\ UNCHANGED <<pc, err>>
                ELSE /\ net' = g1
                     /\ pc' = "raised"
                     /\ err' = "AssertionError"
                     /\ UNCHANGED <<edgetoindex, stubs, rounds, cur, rewires>>
    /\ UNCHANGED <<degs, shuffle, sidx, selfedges, multiedges, selfwork, multitodo>>

\* lines 89-98: a sample that fails a test is dropped and the loop repeats
MultiRetry ==
    /\ UNCHANGED cvars
    /\ pc = "multiedges"
    /\ cur # <<>>
    /\ {e \in Samples(stubs) :
          ~MultiAccepts(net, multiedges, stubs, cur[1], cur[2], e[1], e[2])} # {}
    /\ UNCHANGED slvars

\* line 87 exhausted: the function returns
Return ==
    /\ UNCHANGED cvars
    /\ pc = "multiedges"
    /\ cur = <<>>
    /\ multitodo = {}
    /\ pc' = "done"
    /\ UNCHANGED <<err, degs, shuffle, stubs, sidx, selfedges, multiedges, edgetoindex, net,
                   selfwork, multitodo, cur, rounds, rewires>>

Next ==
    \/ ParityFail
    \/ BuildStubs
    \/ ClassifyStep
    \/ SampleError
    \/ SelfLoopRewire
    \/ SelfLoopRetry
    \/ SelfLoopsDone
    \/ NextPair
    \/ MultiRewire
    \/ MultiRetry
    \/ Return

Spec == Init /\ [][Next]_vars

\* ------------------------------------------------------------------- conf
ZeroDegs == [k \in Degrees |-> 0]

\* the aspect counts tried: 0, 1 and one that is neither
AspectCounts == {0, 1, 2}

RECURSIVE SeqsUpTo(_, _)
SeqsUpTo(S, n) ==
    IF n = 0 THEN {<<>>}
    ELSE SeqsUpTo(S, n - 1) \cup
         {Append(q, x) : q \in {r \in SeqsUpTo(S, n - 1) : Len(r) = n - 1}, x \in S}

\* the loop of lines 196-198 without line 198: nodes stays None and the
\* assertion never compares anything
CountsAgreeNoUpdate(ld) == \A i \in DOMAIN ld : <<>> = <<>>

\* lines 195-198: the loop that compares every layer's node count with the
\* previous one; nodes is <<>> for None and <<n>> for the count n
RECURSIVE CountsAgreeFrom(_, _, _)
CountsAgreeFrom(ld, i, nodes) ==
    IF i > Len(ld) THEN TRUE
    ELSE /\ (nodes = <<>> \/ <<NumNodes(ld[i])>> = nodes)
         /\ CountsAgreeFrom(ld, i + 1, <<NumNodes(ld[i])>>)

CountsAgree(ld) == CountsAgreeFrom(ld, 1, <<>>)

\* no call of single_layer_conf is running
Idle ==
    /\ pc = "idle"
    /\ err = "none"
    /\ degs = ZeroDegs
    /\ shuffle = <<>>
    /\ net = EmptyNet
    /\ NoLocals

InitConf ==
    /\ Idle
    /\ cpc = "start"
    /\ cerr = "none"
    /\ aspects \in AspectCounts
    /\ IF aspects = 0
       THEN \E d \in DegSeqs : ldegs = <<d>>
       ELSE ldegs \in SeqsUpTo(LayerDegSeqs, MaxLayers)
    /\ l = 0
    /\ nlayers = 0
    /\ invoked = 0
    /\ A = <<>>

\* the state in which single_layer_conf(g,d) starts
EnterCall(g, d) ==
    /\ pc' = "start"
    /\ err' = "none"
    /\ degs' = d
    /\ shuffle' \in ShufflesOf(d)
    /\ net' = g
    /\ stubs' = <<>>
    /\ sidx' = 0
    /\ selfedges' = EmptyDict
    /\ multiedges' = {}
    /\ edgetoindex' = EmptyDict
    /\ selfwork' = <<>>
    /\ multitodo' = {}
    /\ cur' = <<>>
    /\ rounds' = 0
    /\ rewires' = 0

\* lines 203-204: neither 0 nor 1 aspects
ConfUnsupported ==
    /\ cpc = "start"
    /\ aspects \notin {0, 1}
    /\ cpc' = "raised"
    /\ cerr' = "Exception"
    /\ UNCHANGED <<aspects, ldegs, l, nlayers, invoked, A>>
    /\ UNCHANGED slvars

\* lines 191-193: a monoplex network, filled by one call
ConfMonoplex ==
    /\ cpc = "start"
    /\ aspects = 0
    /\ EnterCall(EmptyNet, ldegs[1])
    /\ invoked' = invoked + 1
    /\ cpc' = "call0"
    /\ UNCHANGED <<cerr, aspects, ldegs, l, nlayers, A>>

\* lines 195-198: the assertion on the node counts fails
ConfMismatch ==
    /\ cpc = "start"
    /\ aspects = 1
    /\ ~CountsAgree(ldegs)
    /\ cpc' = "raised"
    /\ cerr' = "AssertionError"
    /\ UNCHANGED <<aspects, ldegs, l, nlayers, invoked, A>>
    /\ UNCHANGED slvars

\* lines 195-199: the node counts agree, the MultiplexNetwork is created
ConfCreate ==
    /\ cpc = "start"
    /\ aspects = 1
    /\ CountsAgree(ldegs)
    /\ cpc' = "layers"
    /\ l' = 0
    /\ UNCHANGED <<cerr, aspects, ldegs, nlayers, invoked, A>>
    /\ UNCHANGED slvars

\* lines 200-202: add layer l and call single_layer_conf on it
ConfLayer ==
    /\ cpc = "layers"
    /\ l < Len(ldegs)
    /\ nlayers' = nlayers + 1
    /\ EnterCall(EmptyNet, ldegs[l + 1])
    /\ invoked' = invoked + 1
    /\ cpc' = "call1"
    /\ UNCHANGED <<cerr, aspects, ldegs, l, A>>

\* line 202 returns: the layer is complete, the loop goes on
ConfLayerReturn ==
    /\ cpc = "call1"
    /\ pc = "done"
    /\ A' = Append(A, net)
    /\ l' = l + 1
    /\ cpc' = "layers"
    /\ pc' = "idle"
    /\ stubs' = <<>>
    /\ sidx' = 0
    /\ selfedges' = EmptyDict
    /\ multiedges' = {}
    /\ edgetoindex' = EmptyDict
    /\ degs' = ZeroDegs
    /\ shuffle' = <<>>
    /\ net' = EmptyNet
    /\ rewires' = 0
    /\ UNCHANGED <<err, selfwork, multitodo, cur, rounds>>
    /\ UNCHANGED <<cerr, aspects, ldegs, nlayers, invoked>>

\* lines 193, 202: an exception of single_layer_conf leaves conf
ConfRaise ==
    /\ cpc \in {"call0", "call1"}
    /\ pc = "raised"
    /\ cpc' = "raised"
    /\ cerr' = err
    /\ UNCHANGED <<aspects, ldegs, l, nlayers, invoked, A>>
    /\ UNCHANGED slvars

\* line 206
ConfReturn ==
    /\ \/ cpc = "call0" /\ pc = "done"
       \/ cpc = "layers" /\ l = Len(ldegs)
    /\ cpc' = "returned"
    /\ UNCHANGED <<cerr, aspects, ldegs, l, nlayers, invoked, A>>
    /\ UNCHANGED slvars

NextConf ==
    \/ ConfUnsupported
    \/ ConfMonoplex
    \/ ConfMismatch
    \/ ConfCreate
    \/ ConfLayer
    \/ ConfLayerReturn
    \/ ConfRaise
    \/ ConfReturn
    \/ ParityFail
    \/ BuildStubs
    \/ ClassifyStep
    \/ SampleError
    \/ SelfLoopRewire
    \/ SelfLoopRetry
    \/ SelfLoopsDone
    \/ NextPair
    \/ MultiRewire
    \/ MultiRetry
    \/ Return

SpecConf == InitConf /\ [][NextConf]_vars

\* fair sampling: a rewire that stays possible is eventually drawn, and the
\* sequential steps of the routine are eventually taken
FairSpec == Spec /\ WF_vars(Next)

\* ------------------------------------------------------- longer stub lists
\* Lists too long for every arrangement to be tried: of the arrangements
\* random.shuffle can leave, the one with sorted slots in ascending order is
\* taken for each way of pairing the stubs.
RECURSIVE Pairings(_)
Pairings(s) ==
    IF s = <<>> THEN {<<>>}
    ELSE UNION {{<<s[1], v>> \o t : t \in Pairings(RemoveOne(Tail(s), v))} :
                   v \in Range(Tail(s))}

PairingsOf(d) == IF ParityOk(d) THEN Pairings(Unroll(d)) ELSE {<<>>}

\* degs with c1 nodes of degree 1, c2 of degree 2, c3 of degree 3, c4 of
\* degree 4
Counts(c1, c2, c3, c4) ==
    [k \in Degrees |-> CASE k = 1 -> c1 [] k = 2 -> c2 [] k = 3 -> c3
                         [] k = 4 -> c4 [] OTHER -> 0]

\* calls that reach every step of single_layer_conf: an odd degree sum, a
\* lone self-pairing, self-pairings and repeated pairs with enough other
\* edges to rewire them, a pair met three and four times, and two repeated
\* pairs sharing a node
PairingDegs ==
    {Counts(1, 0, 0, 0), Counts(0, 1, 0, 0), Counts(4, 1, 0, 0),
     Counts(4, 3, 0, 0), Counts(4, 0, 2, 0), Counts(8, 0, 0, 2),
     Counts(6, 2, 0, 1)}

PairingInit ==
    /\ \E d \in PairingDegs :
          /\ pc = "start"
          /\ err = "none"
          /\ degs = d
          /\ shuffle \in PairingsOf(d)
          /\ net = EmptyNet
          /\ NoLocals
    /\ NoConf

PairingSpec == PairingInit /\ [][Next]_vars

\* ================================================================ claims
NodeIds == 0 .. NumNodes(degs) - 1

\* C1: whenever single_layer_conf completes on an initially empty target
\* graph and a degree sequence with even degree sum, every node's degree in
\* the target graph equals the degree the degree sequence prescribes for it,
\* and the graph has no edge at any other node.
C1_DegreesMatch ==
    pc = "done" =>
        /\ \A v \in NodeIds : Deg(net, v) = DegOf(degs, v)
        /\ NetNodes(net) \subseteq NodeIds

\* a run that completed after rewiring self-loops and duplicates alike
C1_Witness ==
    /\ pc = "done"
    /\ rewires > 0
    /\ ParityOk(degs)
    /\ \E v \in NodeIds : Deg(net, v) = 2

\* C2: whenever single_layer_conf completes on an initially empty target
\* graph, the graph holds no edge from a node to itself and every edge it
\* holds has weight exactly 1.
C2_SimpleGraph ==
    pc = "done" =>
        \A k \in DOMAIN net : k[1] # k[2] /\ net[k] = 1

\* a completed run whose initial pairing held a repeated pair
C2_Witness ==
    /\ pc = "done"
    /\ multiedges # {}
    /\ DOMAIN net # {}

\* a completed run whose initial pairing held a self-pairing
C2_WitnessSelf ==
    /\ pc = "done"
    /\ DOMAIN selfedges # {}
    /\ DOMAIN net # {}

\* the sum of degree*count is odd
OddSum(d) == DegSum(d) % 2 = 1

\* C3: with an odd degree sum single_layer_conf does nothing but raise: no
\* stub list, no registry, no edge; the target graph stays as it was.
C3_OddSumFailsFirst ==
    OddSum(degs) =>
        /\ pc \in {"start", "raised"}
        /\ pc = "raised" => err = "AssertionError"
        /\ NoLocals
        /\ net = EmptyNet

\* the call on an odd degree sum has raised
C3_Witness ==
    /\ pc = "raised"
    /\ OddSum(degs)
    /\ DegSum(degs) > 1

\* the node counts of two layers differ
CountsDiffer(ld) ==
    \E i, j \in DOMAIN ld : NumNodes(ld[i]) # NumNodes(ld[j])

\* C4: conf called with aspects=1 and layers of different node counts, or
\* with an aspect count other than 0 and 1, fails without adding a layer and
\* without calling single_layer_conf.
C4_RejectsBeforeWork ==
    (aspects \notin {0, 1} \/ (aspects = 1 /\ CountsDiffer(ldegs))) =>
        /\ cpc \in {"start", "raised"}
        /\ nlayers = 0
        /\ invoked = 0
        /\ A = <<>>
        /\ Idle

\* conf has raised on layers of different node counts
C4_Witness ==
    /\ cpc = "raised"
    /\ aspects = 1
    /\ CountsDiffer(ldegs)
    /\ cerr = "AssertionError"

\* conf has raised on an unsupported aspect count
C4_WitnessAspects ==
    /\ cpc = "raised"
    /\ aspects \notin {0, 1}
    /\ cerr = "Exception"

\* C5: if conf with aspects=1 fails, then at that moment no layer has been
\* added and no edge has been generated in any layer.
C5_NoPartialGraphOnError ==
    (cpc = "raised" /\ aspects = 1) =>
        /\ nlayers = 0
        /\ A = <<>>
        /\ net = EmptyNet

\* C5, as far as the code goes: a failure on the node counts (the only one
\* found before the layers are built) leaves no layer behind
C5_MismatchLeavesNothing ==
    (cpc = "raised" /\ aspects = 1 /\ CountsDiffer(ldegs)) =>
        nlayers = 0 /\ A = <<>> /\ net = EmptyNet

\* ----------------------------------------------------------------- C6
\* the degree sequence {k: 4}
RegularDegs(k) == [j \in Degrees |-> IF j = k THEN 4 ELSE 0]

\* a simple k-regular graph on the nodes 0..3
RegularSimple(g, k) ==
    /\ \A v \in 0 .. 3 : Deg(g, v) = k
    /\ Cardinality(DOMAIN g) = 2 * k
    /\ \A e \in DOMAIN g : e[1] # e[2] /\ g[e] = 1

\* C6: for the degree sequences {2: 4} and {3: 4} every run of
\* single_layer_conf on an empty target graph, for every shuffle and under
\* fair sampling, completes and leaves a simple regular graph on 4 nodes
\* (4 edges of degree 2, or K4).
C6_RegularCompletes ==
    <>(\A k \in {2, 3} :
          degs = RegularDegs(k) => (pc = "done" /\ RegularSimple(net, k)))

\* ----------------------------------------------------------------- C7
\* the sorted pairs held by the slots of the stub list
SlotPair(s, sl) == Sorted2(At(s, 2 * sl), At(s, 2 * sl + 1))

SlotPairs(s) == {SlotPair(s, sl) : sl \in 0 .. NSlots(s) - 1}

\* no self-pairing and no repeated pair
CleanPairing(s) ==
    /\ \A sl \in 0 .. NSlots(s) - 1 : At(s, 2 * sl) # At(s, 2 * sl + 1)
    /\ \A a, b \in 0 .. NSlots(s) - 1 : a # b => SlotPair(s, a) # SlotPair(s, b)

Classified ==
    \/ pc \in {"selfloops", "multiedges", "done"}
    \/ pc = "raised" /\ err = "ValueError"

StubsBuilt == Classified \/ pc = "classify"

\* C7: when the initial pairing holds no self-pairing and no repeated pair,
\* single_layer_conf performs no rewire and raises no error: no work is
\* pending, the stub list stays as shuffled, and the edges of the target
\* graph are exactly the paired slots, each of weight 1. For {1: 2} the
\* pairing is always such, and the result is the edge between 0 and 1.
C7_CleanPairingNoRewire ==
    /\ (StubsBuilt /\ CleanPairing(shuffle)) =>
          /\ pc # "raised"
          /\ rewires = 0 /\ stubs = shuffle
          /\ selfwork = <<>> /\ multiedges = {} /\ multitodo = {} /\ cur = <<>>
          /\ Classified => net = [k \in SlotPairs(shuffle) |-> 1]
    /\ (degs = [j \in Degrees |-> IF j = 1 THEN 2 ELSE 0]) =>
          /\ CleanPairing(shuffle)
          /\ pc # "raised"
          /\ pc = "done" => net = [k \in {<<0, 1>>} |-> 1]

\* a run on a clean pairing of three or more edges has completed
C7_Witness ==
    /\ pc = "done"
    /\ CleanPairing(shuffle)
    /\ Cardinality(DOMAIN net) >= 3

\* ----------------------------------------------------------------- C8
\* occurrences of v in the stub list
Count(s, v) == Cardinality({i \in DOMAIN s : s[i] = v})

\* the pairs of the slots that a step changed
ChangedSlotPairs ==
    {SlotPair(stubs', sl) : sl \in {x \in 0 .. NSlots(stubs) - 1 :
        <<At(stubs, 2 * x), At(stubs, 2 * x + 1)>> #
        <<At(stubs', 2 * x), At(stubs', 2 * x + 1)>>}}

C8_Multiplicity ==
    StubsBuilt =>
        \A v \in NodeIds : Count(stubs, v) = DegOf(degs, v)

C8_RewireWritesNewEdges ==
    (rewires' = rewires + 1) => ChangedSlotPairs = DOMAIN net' \ DOMAIN net

\* C8: in every state after the stub list is built (after the shuffle and
\* after every accepted rewire of either phase) each node occurs in the stub
\* list as often as its prescribed degree, and the slots a rewire wrote hold
\* exactly the edges that rewire added to the target graph.
C8_StubListInvariant == []C8_Multiplicity /\ [][C8_RewireWritesNewEdges]_vars

\* C8 holds of the self-loop phase alone
C8_SelfLoopPhaseOnly ==
    /\ [](pc \in {"classify", "selfloops"} => C8_Multiplicity)
    /\ [][pc = "selfloops" => C8_RewireWritesNewEdges]_vars

\* ----------------------------------------------------------------- C9
RECURSIVE SumOver(_, _)
SumOver(S, f) ==
    IF S = {} THEN 0
    ELSE LET x == CHOOSE y \in S : TRUE IN f[x] + SumOver(S \ {x}, f)

\* self-loop occurrences of v not yet rewired
PendingSelf(v) == Cardinality({i \in DOMAIN selfwork : selfwork[i][1] = v})

\* registry entries of the pair p beyond the base edge
Excess(p) ==
    IF Len(edgetoindex[p]) >= 1 THEN Len(edgetoindex[p]) - 1 ELSE 0

PairsAt(v) == {p \in multiedges : p[1] = v \/ p[2] = v}

AfterClassification == pc \in {"selfloops", "multiedges", "done"}

AfterSelfLoops == pc \in {"multiedges", "done"}

\* C9, as amended: in every state after initial classification, for every
\* node v, degree of v in the target graph + 2 * (self-loop occurrences of v
\* not yet rewired) + (sum over the multi-edge pairs at v of the registry
\* entries beyond the base edge) is the prescribed degree of v; after the
\* self-loop phase, edges in the graph + sum over the multi-edge pairs of
\* max(registry length - 1, 0) = (degree sum)/2.
C9_DegreeAccounting ==
    /\ AfterClassification =>
          \A v \in NodeIds :
              Deg(net, v) + 2 * PendingSelf(v)
                  + SumOver(PairsAt(v), [p \in PairsAt(v) |-> Excess(p)])
              = DegOf(degs, v)
    /\ AfterSelfLoops =>
          2 * (Cardinality(DOMAIN net)
               + SumOver(multiedges, [p \in multiedges |-> Excess(p)]))
          = DegSum(degs)

\* C9 as stated: the sum runs over registry length - 1 itself
C9_SumOfLengthMinusOne ==
    AfterSelfLoops =>
        2 * (Cardinality(DOMAIN net)
             + SumOver(multiedges,
                       [p \in multiedges |-> Len(edgetoindex[p]) - 1]))
        = DegSum(degs)

\* a duplicate has been rewired and its registry entry is empty
C9_Witness ==
    /\ AfterSelfLoops
    /\ rewires > 0
    /\ \E p \in multiedges : Len(edgetoindex[p]) = 0

\* ---------------------------------------------------------------- C10
\* C10, as amended: when initial classification completes, the multi-edge
\* set is exactly the set of pairs of two different nodes whose registry
\* entry is longer than 1; a node paired with itself more than once has a
\* registry entry longer than 1 and is not in the set.
C10_MultiedgesOfDistinctNodes ==
    pc = "selfloops" =>
        multiedges = {p \in DOMAIN edgetoindex :
                         p[1] # p[2] /\ Len(edgetoindex[p]) > 1}

\* C10 as stated: every pair with a registry entry longer than 1
C10_MultiedgesAllLongEntries ==
    pc = "selfloops" =>
        multiedges = {p \in DOMAIN edgetoindex : Len(edgetoindex[p]) > 1}

\* classification ended with a repeated pair and a repeated self-pairing
C10_Witness ==
    /\ pc = "selfloops"
    /\ rewires = 0
    /\ multiedges # {}
    /\ \E p \in DOMAIN edgetoindex : p[1] = p[2] /\ Len(edgetoindex[p]) > 1

\* ---------------------------------------------------------------- C11
\* an iteration of the classification loop is being taken
ClassifyIteration == pc = "classify" /\ sidx' = sidx + 1

\* the iteration leaves every entry of the target graph but that of the
\* pair p as it was
OtherEntriesKept(p) ==
    \A k \in (DOMAIN net \cup DOMAIN net') \ {p} :
        NetGet(net', k[1], k[2]) = NetGet(net, k[1], k[2])

\* C11, as amended: during initial classification a pairing of two
\* different nodes is written into the target graph with weight 1, the
\* first time and every later time: when the same pair occurs again its
\* weight stays 1 and the pair is added to the multi-edge set. A
\* self-pairing never writes an edge into the target graph. No other entry
\* of the target graph changes.
C11_PairWrittenWithWeightOne ==
    [][ClassifyIteration =>
          LET p == SlotPair(stubs, sidx)
          IN /\ OtherEntriesKept(p)
             /\ p[1] # p[2] => NetGet(net', p[1], p[2]) = 1
             /\ (p[1] # p[2] /\ NetGet(net, p[1], p[2]) # 0) =>
                    p \in multiedges'
             /\ (p[1] # p[2] /\ NetGet(net, p[1], p[2]) = 0) =>
                    multiedges' = multiedges
             /\ p[1] = p[2] => (net' = net /\ NetGet(net', p[1], p[2]) = 0)]_vars

\* C11 as stated: weight 1 the first time, the weight already present plus
\* one when the pair occurs again
C11_RepeatedPairIncremented ==
    [][ClassifyIteration =>
          LET p == SlotPair(stubs, sidx)
          IN /\ (p[1] # p[2] /\ NetGet(net, p[1], p[2]) = 0) =>
                    NetGet(net', p[1], p[2]) = 1
             /\ (p[1] # p[2] /\ NetGet(net, p[1], p[2]) # 0) =>
                    NetGet(net', p[1], p[2]) = NetGet(net, p[1], p[2]) + 1
             /\ p[1] = p[2] => net' = net]_vars

\* classification has met a repeated pair of different nodes and a
\* self-pairing: the pair has weight 1, the self-pairing no entry
C11_Witness ==
    /\ pc \in {"classify", "selfloops"}
    /\ rewires = 0
    /\ \E p \in DOMAIN edgetoindex :
          /\ p[1] # p[2]
          /\ Len(edgetoindex[p]) >= 2
          /\ NetGet(net, p[1], p[2]) = 1
    /\ \E p \in DOMAIN edgetoindex : p[1] = p[2] /\ NetGet(net, p[1], p[2]) = 0

\* ---------------------------------------------------------------- C12
\* m: the number of slots of the initial pairing that hold the pair p
Multiplicity(p) ==
    Cardinality({sl \in 0 .. NSlots(shuffle) - 1 : SlotPair(shuffle, sl) = p})

\* the multi-edge phase has not yet come to p (line 87)
PairPending(p) ==
    pc \in {"classify", "selfloops"} \/ (pc = "multiedges" /\ p \in multitodo)

\* the loop of line 88 has run all its rounds for p
PairFinished(p) ==
    pc \in {"multiedges", "done"} /\ p \notin multitodo /\ cur # p

\* an accepted rewire of the multi-edge phase is being taken
AcceptedMultiRewire == pc = "multiedges" /\ rewires' = rewires + 1

\* the registry of every pair of the multi-edge set: m entries until the
\* phase comes to the pair, two fewer with each rewire made for it, never
\* fewer than m mod 2, and m mod 2 when its rounds are over: floor(m/2)
\* rewires have then been made for it
C12_Registry ==
    (pc \in {"selfloops", "multiedges", "done"}) =>
        \A p \in multiedges :
            LET m == Multiplicity(p)
                len == Len(edgetoindex[p])
            IN /\ m >= 2
               /\ PairPending(p) => len = m
               /\ cur = p => (rounds >= 1 /\ len = m - 2 * (m \div 2 - rounds))
               /\ PairFinished(p) => len = m % 2

\* an accepted rewire removes two entries from the registry of its pair and
\* from no other, and removes the base edge exactly when it starts with two
\* entries left
C12_Rewire ==
    AcceptedMultiRewire =>
        /\ Len(edgetoindex'[cur]) = Len(edgetoindex[cur]) - 2
        /\ \A q \in DOMAIN edgetoindex \ {cur} : edgetoindex'[q] = edgetoindex[q]
        /\ IF Len(edgetoindex[cur]) = 2
           THEN NetGet(net', cur[1], cur[2]) = 0
           ELSE NetGet(net', cur[1], cur[2]) = 1

\* the base edge when the last rewire for the pair ends: present if and
\* only if m is odd
C12_LastRewire ==
    (AcceptedMultiRewire /\ cur' # cur) =>
        (NetGet(net', cur[1], cur[2]) # 0 <=> Multiplicity(cur) % 2 = 1)

\* C12, as amended: for a pair (n1,n2) of the multi-edge set whose initial
\* pairing produced m >= 2 slots, the rounds of the multi-edge phase for
\* that pair end after exactly floor(m/2) accepted rewires, each removing
\* two entries from the pair's registry; the base edge is removed only in
\* the rewire that starts with exactly two registry entries left, so when
\* the last rewire for the pair ends the registry has m mod 2 entries and
\* the edge (n1,n2) is present if and only if m is odd. After the phase the
\* registry still has m mod 2 entries and the edge is present when m is odd;
\* when m is even a rewire made later for another pair may have written the
\* edge anew.
C12_RewiresPerPair ==
    /\ []C12_Registry
    /\ [][C12_Rewire /\ C12_LastRewire]_vars
    /\ [](\A p \in multiedges :
             (PairFinished(p) /\ Multiplicity(p) % 2 = 1) =>
                 NetGet(net, p[1], p[2]) = 1)

\* C12 as stated: after the phase the edge is present if and only if m is
\* odd
C12_EdgeIffOddAfterPhase ==
    /\ []C12_Registry
    /\ [][C12_Rewire]_vars
    /\ [](pc = "done" =>
             \A p \in multiedges :
                 NetGet(net, p[1], p[2]) # 0 <=> Multiplicity(p) % 2 = 1)

\* the phase has ended for a pair met three times: one rewire, one registry
\* entry left, the base edge still there
C12_Witness ==
    /\ pc = "done"
    /\ \E p \in multiedges :
          /\ Multiplicity(p) = 3
          /\ Len(edgetoindex[p]) = 1
          /\ NetGet(net, p[1], p[2]) = 1
    /\ rewires = 1

\* the phase has ended for a pair met four times: two rewires, the base
\* edge gone
C12_WitnessFour ==
    /\ pc = "done"
    /\ \E p \in multiedges :
          /\ Multiplicity(p) = 4
          /\ Len(edgetoindex[p]) = 0
          /\ NetGet(net, p[1], p[2]) = 0
    /\ rewires = 2

\* ---------------------------------------------------------------- C13
\* the sampled slots e pass the three tests of lines 96-98 for the pair
\* (n1,n2): six different endpoints, neither sampled pair in the multi-edge
\* set, none of the four new edges present
PassesChecks(n1, n2, e) ==
    LET p34 == SlotPair(stubs, e[1] \div 2)
        p56 == SlotPair(stubs, e[2] \div 2)
    IN /\ Cardinality({n1, n2, p34[1], p34[2], p56[1], p56[2]}) = 6
       /\ p34 \notin multiedges /\ p56 \notin multiedges
       /\ NetGet(net, n1, p34[1]) = 0 /\ NetGet(net, n2, p34[2]) = 0
       /\ NetGet(net, n1, p56[1]) = 0 /\ NetGet(net, n2, p56[2]) = 0

\* C13: the two assertions of the multi-edge phase never fail: in every
\* state of the phase, whenever two sampled slots pass the checks for the
\* pair at hand, both sampled pairs are edges of the target graph with
\* weight 1, also after earlier rewires of either phase have rewritten
\* slots of the stub list; the only AssertionError raised is that of the
\* parity check.
C13_AssertionsNeverFail ==
    /\ (pc = "multiedges" /\ cur # <<>>) =>
          \A x, y \in 0 .. NSlots(stubs) - 1 :
              (x # y /\ PassesChecks(cur[1], cur[2], <<2 * x, 2 * y>>)) =>
                  /\ NetGet(net, At(stubs, 2 * x), At(stubs, 2 * x + 1)) = 1
                  /\ NetGet(net, At(stubs, 2 * y), At(stubs, 2 * y + 1)) = 1
    /\ (pc = "raised" /\ err = "AssertionError") => OddSum(degs)

\* a rewire of the multi-edge phase has passed both assertions after a
\* rewire of the self-loop phase rewrote three slots
C13_Witness ==
    /\ pc \in {"multiedges", "done"}
    /\ selfedges # EmptyDict
    /\ rewires >= 2
    /\ stubs # shuffle
    /\ \E p \in multiedges : Len(edgetoindex[p]) < Multiplicity(p)

\* a second rewire of the multi-edge phase has passed both assertions
C13_WitnessTwoRewires ==
    /\ pc \in {"multiedges", "done"}
    /\ selfedges = EmptyDict
    /\ rewires >= 2

\* ---------------------------------------------------------------- C14
\* the nodes numbered while unrolling that were given degree 0
ZeroDegreeNodes == {v \in NodeIds : DegOf(degs, v) = 0}

\* C14: after single_layer_conf completes, every node 0..N-1 numbered while
\* unrolling the degree sequence (N the sum of the counts) is present in the
\* target graph, the nodes of prescribed degree 0 included.
C14_AllNodesPresent == pc = "done" => NodeIds \subseteq NetNodes(net)

\* what does hold: the nodes of the graph after completion are exactly the
\* nodes of positive prescribed degree
C14_PositiveDegreeNodesPresent ==
    pc = "done" => NetNodes(net) = NodeIds \ ZeroDegreeNodes

\* a call with nodes of degree 0 and edges among the others has completed
C14_WitnessZeroDegree ==
    /\ pc = "done"
    /\ ZeroDegreeNodes # {}
    /\ net # EmptyNet

\* ---------------------------------------------------------------- C15
\* C15: the parity failure is the only error single_layer_conf can raise:
\* on a degree sequence with an even degree sum and an initially empty
\* target graph no step of the self-loop phase or of the multi-edge phase
\* ends in an error, also when the stub list has fewer than two slots to
\* sample from.
C15_OnlyParityError == pc = "raised" => OddSum(degs)

\* what does hold: an error on an even degree sum is the ValueError of
\* random.sample, raised in the self-loop phase on a stub list of one slot
C15_OtherErrorIsSampleError ==
    (pc = "raised" /\ ~OddSum(degs)) =>
        /\ err = "ValueError"
        /\ NSlots(stubs) = 1
        /\ selfwork # <<>>
        /\ net = EmptyNet

\* the call on one node of degree 2 has ended in the error of line 62
C15_WitnessSampleError ==
    /\ pc = "raised"
    /\ err = "ValueError"
    /\ stubs = <<0, 0>>

====
